---- MODULE Spec2Model ----
(***************************************************************************)
(* Model of the collaborative drawing server (server/index.js,             *)
(* server/rooms.js, server/drawing-state.js, server/storage.js) and of the *)
(* client-side message handler (hooks/use-collab-socket).                  *)
(*                                                                         *)
(* JavaScript values are encoded as follows:                               *)
(*   - undefined / null are the strings Undef / Null;                      *)
(*   - an optional object (an argument that may be missing, a result that  *)
(*     may be null) is a sequence of length 0 or 1;                        *)
(*   - a Map is the sequence of its values in insertion order; every Map   *)
(*     of the program is keyed by the id field of its values;              *)
(*   - a drawing element is a record with the fields the server inspects   *)
(*     (id, type, status, content, dataUrl) and one field, data, that      *)
(*     stands for the rest of its payload (points, geometry, style).       *)
(***************************************************************************)
EXTENDS Integers, Sequences, FiniteSets, TLC

\* ------------------------------------------------------------------ bounds
NumConns == 2
MaxCmds == 3
MaxDrawCmds == 4
MaxSessions == 1
MaxHistoryCmds == 5

\* --------------------------------------------------------------- JS values
Undef == "undefined"
Null == "null"

Truthy(v) == v \notin {Undef, Null, ""}

\* a || b
Or(a, b) == IF Truthy(a) THEN a ELSE b

Some(v) == <<v>>
None == <<>>

RECURSIVE SeqToSet(_)
SeqToSet(s) == IF s = <<>> THEN {} ELSE {Head(s)} \cup SeqToSet(Tail(s))

\* Array.prototype.includes
Includes(s, v) == \E i \in DOMAIN s : s[i] = v

\* Array.prototype.pop: the array without its last entry
Pop(s) == SubSeq(s, 1, Len(s) - 1)

Last(s) == s[Len(s)]

\* ------------------------------------------------------------------- Map
MapHas(m, id) == \E i \in DOMAIN m : m[i].id = id

MapGet(m, id) == m[CHOOSE i \in DOMAIN m : m[i].id = id]

\* Map.prototype.set: an existing key keeps its position
MapSet(m, id, v) ==
    IF MapHas(m, id)
    THEN [i \in DOMAIN m |-> IF m[i].id = id THEN v ELSE m[i]]
    ELSE Append(m, v)

MapDelete(m, id) == SelectSeq(m, LAMBDA v : v.id # id)

\* ------------------------------------------------- server/drawing-state.js
\* Each operation returns the room after the call and the call's result.

upsertPathNeverInherits(room, path) ==
    IF path = None \/ ~Truthy(path[1].id)
    THEN [room |-> room, ret |-> None]
    ELSE LET p == path[1]
             status == Or(p.status, "in-progress")
             nextPath == [p EXCEPT !.type = "path", !.status = status]
         IN [room |-> [room EXCEPT !.pathsById = MapSet(@, p.id, nextPath)],
             ret |-> Some(nextPath)]

upsertPath(room, path) ==
    IF path = None \/ ~Truthy(path[1].id)
    THEN [room |-> room, ret |-> None]
    ELSE LET p == path[1]
             status == Or(p.status,
                          IF Includes(room.committedIds, p.id)
                          THEN "committed" ELSE "in-progress")
             nextPath == [p EXCEPT !.type = "path", !.status = status]
         IN [room |-> [room EXCEPT !.pathsById = MapSet(@, p.id, nextPath)],
             ret |-> Some(nextPath)]

commitPath(room, pathId) ==
    IF ~Truthy(pathId) \/ ~MapHas(room.pathsById, pathId)
    THEN [room |-> room, ret |-> None]
    ELSE LET existingPath == MapGet(room.pathsById, pathId)
             committedPath == [existingPath EXCEPT !.status = "committed"]
         IN [room |-> [room EXCEPT
                         !.committedIds = IF Includes(@, pathId) THEN @
                                          ELSE Append(@, pathId),
                         !.redoStack = <<>>,
                         !.pathsById = MapSet(@, pathId, committedPath)],
             ret |-> Some(committedPath)]

upsertShape(room, shape) ==
    IF shape = None \/ ~Truthy(shape[1].id)
    THEN [room |-> room, ret |-> None]
    ELSE LET s == shape[1]
             status == Or(s.status,
                          IF Includes(room.committedIds, s.id)
                          THEN "committed" ELSE "in-progress")
             nextShape == [s EXCEPT !.status = status]
         IN [room |-> [room EXCEPT !.shapesById = MapSet(@, s.id, nextShape)],
             ret |-> Some(nextShape)]

commitShape(room, shapeId) ==
    IF ~Truthy(shapeId) \/ ~MapHas(room.shapesById, shapeId)
    THEN [room |-> room, ret |-> None]
    ELSE LET existingShape == MapGet(room.shapesById, shapeId)
             committedShape == [existingShape EXCEPT !.status = "committed"]
         IN [room |-> [room EXCEPT
                         !.committedIds = IF Includes(@, shapeId) THEN @
                                          ELSE Append(@, shapeId),
                         !.redoStack = <<>>,
                         !.shapesById = MapSet(@, shapeId, committedShape)],
             ret |-> Some(committedShape)]

\* addText without the reset of redoStack.
addTextKeepsRedoStack(room, text) ==
    IF text = None \/ ~Truthy(text[1].id)
    THEN [room |-> room, ret |-> None]
    ELSE LET t == text[1]
             textElement == [t EXCEPT !.status = "committed"]
         IN [room |-> [room EXCEPT
                         !.textsById = MapSet(@, t.id, textElement),
                         !.committedIds = Append(@, t.id)],
             ret |-> Some(textElement)]

addText(room, text) ==
    IF text = None \/ ~Truthy(text[1].id)
    THEN [room |-> room, ret |-> None]
    ELSE LET t == text[1]
             textElement == [t EXCEPT !.status = "committed"]
         IN [room |-> [room EXCEPT
                         !.textsById = MapSet(@, t.id, textElement),
                         !.committedIds = Append(@, t.id),
                         !.redoStack = <<>>],
             ret |-> Some(textElement)]

addImage(room, image) ==
    IF image = None \/ ~Truthy(image[1].id)
    THEN [room |-> room, ret |-> None]
    ELSE LET g == image[1]
             imageElement == [g EXCEPT !.status = "committed"]
         IN [room |-> [room EXCEPT
                         !.imagesById = MapSet(@, g.id, imageElement),
                         !.committedIds = Append(@, g.id),
                         !.redoStack = <<>>],
             ret |-> Some(imageElement)]

undo(room) ==
    IF room.committedIds = <<>>
    THEN [room |-> room, ret |-> None]
    ELSE LET lastId == Last(room.committedIds)
             popped == [room EXCEPT !.committedIds = Pop(@)]
             Removed(coll, element) ==
                 [room |-> [popped EXCEPT
                              ![coll] = MapDelete(@, lastId),
                              !.redoStack = Append(@, [id |-> lastId,
                                                       element |-> element])],
                  ret |-> Some(element)]
         IN IF MapHas(room.pathsById, lastId)
            THEN Removed("pathsById", MapGet(room.pathsById, lastId))
            ELSE IF MapHas(room.shapesById, lastId)
            THEN Removed("shapesById", MapGet(room.shapesById, lastId))
            ELSE IF MapHas(room.textsById, lastId)
            THEN Removed("textsById", MapGet(room.textsById, lastId))
            ELSE IF MapHas(room.imagesById, lastId)
            THEN Removed("imagesById", MapGet(room.imagesById, lastId))
            ELSE [room |-> popped, ret |-> None]

\* The collection an element is filed under by redo and loadSession.
CollectionOf(element) ==
    IF element.type = "path" THEN "pathsById"
    ELSE IF Truthy(element.type) THEN "shapesById"
    ELSE IF element.content # Undef THEN "textsById"
    ELSE IF element.dataUrl # Undef THEN "imagesById"
    ELSE "none"

redo(room) ==
    IF room.redoStack = <<>>
    THEN [room |-> room, ret |-> None]
    ELSE LET item == Last(room.redoStack)
             committedElement == [item.element EXCEPT !.status = "committed"]
             coll == CollectionOf(item.element)
             popped == [room EXCEPT !.redoStack = Pop(@),
                                    !.committedIds = Append(@, item.id)]
         IN [room |-> IF coll = "none" THEN popped
                      ELSE [popped EXCEPT
                              ![coll] = MapSet(@, item.id, committedElement)],
             ret |-> Some(committedElement)]

clearKeepsRedoStack(room) ==
    [room EXCEPT !.pathsById = <<>>, !.shapesById = <<>>,
                 !.textsById = <<>>, !.imagesById = <<>>,
                 !.committedIds = <<>>]

clear(room) ==
    [room EXCEPT !.pathsById = <<>>, !.shapesById = <<>>,
                 !.textsById = <<>>, !.imagesById = <<>>,
                 !.committedIds = <<>>, !.redoStack = <<>>]

\* sessionId and createdAt come from Date.now() and Math.random(): they are
\* arguments here.
saveSessionPathsOnly(room, sessionName, sessionId, createdAt) ==
    LET elements == room.pathsById
    IN [room |-> [room EXCEPT !.sessions =
                     MapSet(@, sessionId, [id |-> sessionId,
                                           name |-> sessionName,
                                           elements |-> elements,
                                           createdAt |-> createdAt])],
        ret |-> [sessionId |-> sessionId, name |-> sessionName]]

saveSession(room, sessionName, sessionId, createdAt) ==
    LET elements == room.pathsById \o room.shapesById
                    \o room.textsById \o room.imagesById
    IN [room |-> [room EXCEPT !.sessions =
                     MapSet(@, sessionId, [id |-> sessionId,
                                           name |-> sessionName,
                                           elements |-> elements,
                                           createdAt |-> createdAt])],
        ret |-> [sessionId |-> sessionId, name |-> sessionName]]

RECURSIVE LoadElements(_, _)
LoadElements(room, elements) ==
    IF elements = <<>> THEN room
    ELSE LET element == Head(elements)
             coll == CollectionOf(element)
             placed == IF coll = "none" THEN room
                       ELSE [room EXCEPT ![coll] = MapSet(@, element.id, element)]
             listed == IF element.status = "committed"
                       THEN [placed EXCEPT !.committedIds = Append(@, element.id)]
                       ELSE placed
         IN LoadElements(listed, Tail(elements))

loadSessionWithoutClear(room, sessionId) ==
    IF ~MapHas(room.sessions, sessionId)
    THEN [room |-> room, ret |-> None]
    ELSE LET session == MapGet(room.sessions, sessionId)
         IN [room |-> LoadElements(room, session.elements),
             ret |-> Some(session.elements)]

loadSession(room, sessionId) ==
    IF ~MapHas(room.sessions, sessionId)
    THEN [room |-> room, ret |-> None]
    ELSE LET session == MapGet(room.sessions, sessionId)
         IN [room |-> LoadElements(clear(room), session.elements),
             ret |-> Some(session.elements)]

\* ---------------------------------------------------------- server/rooms.js
RoomIds == {"default", "secret"}

\* String.prototype.trim, as far as the join handler uses it: is the result
\* the empty string.
Blank == {"", " "}

Trim(str) == IF str \in Blank THEN "" ELSE str

\* SHA-256 hex digest: distinct passwords have distinct digests.
hashPassword(password) ==
    IF ~Truthy(password) THEN Null ELSE "sha256:" \o password

createRoom(options) ==
    [clients |-> <<>>, pathsById |-> <<>>, shapesById |-> <<>>,
     textsById |-> <<>>, imagesById |-> <<>>,
     committedIds |-> <<>>, redoStack |-> <<>>, sessions |-> <<>>,
     roomType |-> Or(options.roomType, "public"),
     passwordHash |-> Or(options.passwordHash, Null)]

\* The registry is a function from the ids of the existing rooms.
getOrCreateRoomResetsOptions(registry, roomId, options) ==
    IF roomId \in DOMAIN registry
    THEN [registry EXCEPT ![roomId].roomType = Or(options.roomType, "public"),
                          ![roomId].passwordHash = Or(options.passwordHash, Null)]
    ELSE (roomId :> createRoom(options)) @@ registry

getOrCreateRoom(registry, roomId, options) ==
    IF roomId \in DOMAIN registry THEN registry
    ELSE (roomId :> createRoom(options)) @@ registry

\* isPasswordValid comparing nothing: any password opens a private room.
isPasswordValidAnyPassword(room, password) ==
    IF room.roomType # "private" THEN TRUE
    ELSE Truthy(room.passwordHash)

isPasswordValid(room, password) ==
    IF room.roomType # "private" THEN TRUE
    ELSE IF ~Truthy(room.passwordHash) THEN FALSE
    ELSE hashPassword(password) = room.passwordHash

\* Array.prototype.sort with (a, b) => b.createdAt - a.createdAt is stable:
\* an entry goes after every entry that is not older than it.
RECURSIVE InsertByCreatedAt(_, _)
InsertByCreatedAt(sorted, entry) ==
    IF sorted = <<>> THEN <<entry>>
    ELSE IF Head(sorted).createdAt >= entry.createdAt
         THEN <<Head(sorted)>> \o InsertByCreatedAt(Tail(sorted), entry)
         ELSE <<entry>> \o sorted

RECURSIVE SortByCreatedAtDesc(_, _)
SortByCreatedAtDesc(sorted, rest) ==
    IF rest = <<>> THEN sorted
    ELSE SortByCreatedAtDesc(InsertByCreatedAt(sorted, Head(rest)), Tail(rest))

buildSessionList(room) ==
    SortByCreatedAtDesc(<<>>,
        [i \in DOMAIN room.sessions |->
            [id |-> room.sessions[i].id, name |-> room.sessions[i].name,
             createdAt |-> room.sessions[i].createdAt]])

RECURSIVE CommittedPaths(_, _)
CommittedPaths(room, ids) ==
    IF ids = <<>> THEN <<>>
    ELSE (IF MapHas(room.pathsById, Head(ids))
          THEN <<MapGet(room.pathsById, Head(ids))>> ELSE <<>>)
         \o CommittedPaths(room, Tail(ids))

buildStatePayload(room) ==
    LET committedPaths == CommittedPaths(room, room.committedIds)
        inProgressPaths == SelectSeq(room.pathsById,
                              LAMBDA p : ~Includes(room.committedIds, p.id))
    IN [type |-> "state",
        users |-> [i \in DOMAIN room.clients |->
                      [id |-> room.clients[i].id, name |-> room.clients[i].name,
                       color |-> room.clients[i].color]],
        cursors |-> [i \in DOMAIN room.clients |->
                      [id |-> room.clients[i].id, name |-> room.clients[i].name,
                       color |-> room.clients[i].color,
                       position |-> room.clients[i].position]],
        paths |-> committedPaths \o inProgressPaths,
        shapes |-> room.shapesById,
        texts |-> room.textsById,
        images |-> room.imagesById,
        redoCount |-> Len(room.redoStack),
        sessions |-> buildSessionList(room),
        roomType |-> Or(room.roomType, "public")]

getLatestSessionId(room) ==
    LET sessions == buildSessionList(room)
    IN IF Len(sessions) > 0 THEN Some(sessions[1].id) ELSE None

serializeRoomsWithoutSessions(registry) ==
    [roomId \in DOMAIN registry |->
        [roomType |-> Or(registry[roomId].roomType, "public"),
         passwordHash |-> Or(registry[roomId].passwordHash, Null),
         sessions |-> <<>>]]

serializeRooms(registry) ==
    [roomId \in DOMAIN registry |->
        [roomType |-> Or(registry[roomId].roomType, "public"),
         passwordHash |-> Or(registry[roomId].passwordHash, Null),
         sessions |-> registry[roomId].sessions]]

\* createdAt is always set in a snapshot the server wrote.
hydrateRooms(snapshot) ==
    [roomId \in DOMAIN snapshot |->
        [createRoom([roomType |-> Or(snapshot[roomId].roomType, "public"),
                     passwordHash |-> Or(snapshot[roomId].passwordHash, Null)])
         EXCEPT !.sessions = snapshot[roomId].sessions]]

\* --------------------------------------------------------- server/index.js
USER_COLORS == <<"#DC2626", "#D97706", "#65A30D", "#059669", "#0891B2",
                 "#0284C7", "#4F46E5", "#7C3AED", "#C026D3", "#DB2777">>

pickUserColor(room) ==
    LET usedColors == {room.clients[i].color : i \in DOMAIN room.clients}
        free == {k \in DOMAIN USER_COLORS : USER_COLORS[k] \notin usedColors}
    IN IF free # {}
       THEN USER_COLORS[CHOOSE k \in free : \A j \in free : k <= j]
       ELSE USER_COLORS[(Len(room.clients) % Len(USER_COLORS)) + 1]

Conns == 0 .. (NumConns - 1)

VARIABLES
    rooms,          \* the registry: room id -> room
    disk,           \* content of data/rooms.json
    now,            \* Date.now()
    clientCounter,  \* connections accepted so far; connection c has id user-c
    conn,           \* per connection: "none", "open" (readyState 1) or "closed"
    currentRoom,    \* per connection: the id of currentRoom, or Null
    out,            \* per connection: messages sent by the server, not yet received
    client,         \* per connection: the CollabState of the client hook
    nCmds,          \* inbound messages handled so far
    inbox           \* per connection: messages sent to the server, not yet handled

vars == <<rooms, disk, now, clientCounter, conn, currentRoom, out, client, nCmds,
         inbox>>

InitialPosition == "(-100,-100)"

InitialCollabState ==
    [clientId |-> Null, roomId |-> Null, roomType |-> Null,
     lastLoadedSessionId |-> Null,
     paths |-> <<>>, shapes |-> <<>>, texts |-> <<>>, images |-> <<>>,
     users |-> <<>>, cursors |-> <<>>, redoCount |-> 0, sessions |-> <<>>]

\* No snapshot file exists on the first start: loadRoomSnapshot returns {}.
Init ==
    /\ disk = <<>>
    /\ rooms = hydrateRooms(disk)
    /\ now = 0
    /\ clientCounter = 0
    /\ conn = [c \in Conns |-> "none"]
    /\ currentRoom = [c \in Conns |-> Null]
    /\ out = [c \in Conns |-> <<>>]
    /\ client = [c \in Conns |-> InitialCollabState]
    /\ nCmds = 0
    /\ inbox = [c \in Conns |-> <<>>]

\* socket.readyState === 1
IsOpen(live, c) == live[c] = "open"

send(o, live, c, message) ==
    IF IsOpen(live, c) THEN [o EXCEPT ![c] = Append(@, message)] ELSE o

\* broadcast leaving the loop after the first participant.
broadcastFirstOnly(o, live, room, message) ==
    [c \in Conns |->
        IF room.clients # <<>> /\ room.clients[1].socket = c /\ IsOpen(live, c)
        THEN Append(o[c], message) ELSE o[c]]

broadcast(o, live, room, message) ==
    [c \in Conns |->
        IF (\E i \in DOMAIN room.clients : room.clients[i].socket = c)
           /\ IsOpen(live, c)
        THEN Append(o[c], message) ELSE o[c]]

ErrorMsg(text) == [type |-> "error", message |-> text]

\* storage.saveRoomSnapshot: the write may fail, and the failure is swallowed.
saveRoomSnapshotSkipped(snapshot, ok) == disk

saveRoomSnapshot(snapshot, ok) == IF ok THEN snapshot ELSE disk

\* wss.on('connection')
Connect ==
    /\ clientCounter < NumConns
    /\ conn[clientCounter] = "none"
    /\ conn' = [conn EXCEPT ![clientCounter] = "open"]
    /\ clientCounter' = clientCounter + 1
    /\ UNCHANGED <<rooms, disk, now, currentRoom, out, client, nCmds, inbox>>

Receives(c) == conn[c] = "open"

\* JSON.parse throws, or the message has no string type.
Malformed(c, text) ==
    /\ Receives(c)
    /\ out' = send(out, conn, c, ErrorMsg(text))
    /\ nCmds' = nCmds + 1
    /\ UNCHANGED <<rooms, disk, now, clientCounter, conn, currentRoom, client>>

JoinRoomId(m) == Or(m.roomId, "default")

JoinRoomType(m) == IF m.roomType = "private" THEN "private" ELSE "public"

JoinPassword(m) == Or(m.password, "")

\* JoinRejection without the check that a new private room has a password.
JoinRejectionNoCreationCheck(registry, m) ==
    IF /\ JoinRoomId(m) \in DOMAIN registry
       /\ registry[JoinRoomId(m)].roomType = "private"
       /\ ~isPasswordValid(registry[JoinRoomId(m)], JoinPassword(m))
    THEN Some("Invalid room password.")
    ELSE None

\* The two rejections of the join handler; the result is the error text,
\* or None when the join goes on.
JoinRejection(registry, m) ==
    IF /\ JoinRoomId(m) \notin DOMAIN registry
       /\ JoinRoomType(m) = "private"
       /\ ~Truthy(Trim(JoinPassword(m)))
    THEN Some("Private rooms require a password.")
    ELSE IF /\ JoinRoomId(m) \in DOMAIN registry
            /\ registry[JoinRoomId(m)].roomType = "private"
            /\ ~isPasswordValid(registry[JoinRoomId(m)], JoinPassword(m))
    THEN Some("Invalid room password.")
    ELSE None

\* The room after the join handler's automatic load of the latest session.
AutoLoad(room) ==
    LET hasLiveState == \/ Len(room.pathsById) > 0 \/ Len(room.shapesById) > 0
                        \/ Len(room.textsById) > 0 \/ Len(room.imagesById) > 0
        latestSessionId == getLatestSessionId(room)
    IN IF ~hasLiveState /\ Len(room.clients) = 1 /\ Len(room.sessions) > 0
          /\ latestSessionId # None
       THEN loadSession(room, latestSessionId[1]).room
       ELSE room

\* ok: whether the snapshot write succeeds.
Join(c, m, ok) ==
    /\ Receives(c)
    /\ nCmds' = nCmds + 1
    /\ LET roomId == JoinRoomId(m)
           rejection == JoinRejection(rooms, m)
       IN IF rejection # None
          THEN /\ out' = send(out, conn, c, ErrorMsg(rejection[1]))
               /\ UNCHANGED <<rooms, disk, now, clientCounter, conn,
                              currentRoom, client>>
          ELSE LET currentRoomWasCreated == roomId \notin DOMAIN rooms
                   registry == getOrCreateRoom(rooms, roomId,
                       [roomType |-> JoinRoomType(m),
                        passwordHash |-> IF JoinRoomType(m) = "private"
                                         THEN hashPassword(JoinPassword(m))
                                         ELSE Null])
                   clientInfo == [id |-> c, name |-> Or(m.name, "Anonymous"),
                                  color |-> pickUserColor(registry[roomId]),
                                  position |-> InitialPosition,
                                  socket |-> c, roomId |-> roomId]
                   joined == [registry[roomId] EXCEPT
                                 !.clients = MapSet(@, c, clientInfo)]
                   room == AutoLoad(joined)
                   welcomed == send(out, conn, c,
                                   [type |-> "welcome", id |-> c,
                                    roomId |-> roomId,
                                    roomType |-> Or(room.roomType, "public")])
               IN /\ disk' = IF currentRoomWasCreated
                             THEN saveRoomSnapshot(serializeRooms(registry), ok)
                             ELSE disk
                  /\ rooms' = [registry EXCEPT ![roomId] = room]
                  /\ currentRoom' = [currentRoom EXCEPT ![c] = roomId]
                  /\ out' = broadcast(welcomed, conn, room, buildStatePayload(room))
                  /\ UNCHANGED <<now, clientCounter, conn, client>>

\* A join whose password is truthy and not a string (a number, true, an
\* object). The handler calls requestedPassword.trim() when the room does not
\* exist and is asked for as private, and hashPassword(requestedPassword),
\* whose crypto update() takes strings and buffers only, when the room is
\* private with a hash (in isPasswordValid) or is asked for as private (in
\* the options of getOrCreateRoom): each throws a TypeError.
PasswordThrows(registry, m) ==
    \/ JoinRoomType(m) = "private"
    \/ /\ JoinRoomId(m) \in DOMAIN registry
       /\ registry[JoinRoomId(m)].roomType = "private"
       /\ Truthy(registry[JoinRoomId(m)].passwordHash)

\* Nothing catches the TypeError (the handler's try covers JSON.parse only,
\* and there is no uncaughtException handler): the process exits, every
\* socket is gone with what was in flight, and no connection is served any
\* more. Where nothing throws, the password is not looked at and the join
\* is the join without a password.
JoinNonTextPassword(c, m, ok) ==
    IF PasswordThrows(rooms, m)
    THEN /\ Receives(c)
         /\ conn' = [d \in Conns |-> "closed"]
         /\ out' = [d \in Conns |-> <<>>]
         /\ nCmds' = nCmds + 1
         /\ UNCHANGED <<rooms, disk, now, clientCounter, currentRoom, client>>
    ELSE Join(c, [m EXCEPT !.password = Undef], ok)

NotJoinedErrorToAll(c) ==
    /\ Receives(c)
    /\ currentRoom[c] = Null
    /\ out' = [d \in Conns |->
                 IF IsOpen(conn, d)
                 THEN Append(out[d], ErrorMsg("Not joined to a room."))
                 ELSE out[d]]
    /\ nCmds' = nCmds + 1
    /\ UNCHANGED <<rooms, disk, now, clientCounter, conn, currentRoom, client>>

\* Any message but join on a connection whose currentRoom is null.
NotJoined(c) ==
    /\ Receives(c)
    /\ currentRoom[c] = Null
    /\ out' = send(out, conn, c, ErrorMsg("Not joined to a room."))
    /\ nCmds' = nCmds + 1
    /\ UNCHANGED <<rooms, disk, now, clientCounter, conn, currentRoom, client>>

\* The guards every in-room command passes: currentRoom is set and holds the
\* sender's clientInfo.
InRoom(c) ==
    /\ Receives(c)
    /\ currentRoom[c] # Null
    /\ MapHas(rooms[currentRoom[c]].clients, c)

Room(c) == rooms[currentRoom[c]]

SetRoomEverywhere(c, room) == [r \in DOMAIN rooms |-> room]

SetRoom(c, room) == [rooms EXCEPT ![currentRoom[c]] = room]

RedoCountMsg(room) == [type |-> "redo-count", redoCount |-> Len(room.redoStack)]

\* An in-room command that touches only the sender's room and the queues.
RoomStep(c, room, o) ==
    /\ rooms' = SetRoom(c, room)
    /\ out' = o
    /\ nCmds' = nCmds + 1
    /\ UNCHANGED <<disk, now, clientCounter, conn, currentRoom, client>>

Cursor(c, position) ==
    /\ InRoom(c)
    /\ LET room == [Room(c) EXCEPT !.clients =
                       MapSet(@, c, [MapGet(@, c) EXCEPT !.position = position])]
       IN RoomStep(c, room,
                   broadcast(out, conn, room,
                             [type |-> "cursor", id |-> c, position |-> position]))

PathUpsert(c, path) ==
    /\ InRoom(c)
    /\ LET res == upsertPath(Room(c), path)
       IN IF res.ret = None THEN RoomStep(c, Room(c), out)
          ELSE RoomStep(c, res.room,
                        broadcast(out, conn, res.room,
                                  [type |-> "path:upsert", path |-> res.ret[1]]))

PathCommit(c, id) ==
    /\ InRoom(c)
    /\ LET res == commitPath(Room(c), id)
       IN IF res.ret = None THEN RoomStep(c, Room(c), out)
          ELSE RoomStep(c, res.room,
                        broadcast(broadcast(out, conn, res.room,
                                      [type |-> "path:upsert", path |-> res.ret[1]]),
                                  conn, res.room, RedoCountMsg(res.room)))

ShapeUpsert(c, shape) ==
    /\ InRoom(c)
    /\ LET res == upsertShape(Room(c), shape)
       IN IF res.ret = None THEN RoomStep(c, Room(c), out)
          ELSE RoomStep(c, res.room,
                        broadcast(out, conn, res.room,
                                  [type |-> "shape:upsert", shape |-> res.ret[1]]))

ShapeCommit(c, id) ==
    /\ InRoom(c)
    /\ LET res == commitShape(Room(c), id)
       IN IF res.ret = None THEN RoomStep(c, Room(c), out)
          ELSE RoomStep(c, res.room,
                        broadcast(broadcast(out, conn, res.room,
                                      [type |-> "shape:upsert", shape |-> res.ret[1]]),
                                  conn, res.room, RedoCountMsg(res.room)))

TextAdd(c, text) ==
    /\ InRoom(c)
    /\ LET res == addText(Room(c), text)
       IN IF res.ret = None THEN RoomStep(c, Room(c), out)
          ELSE RoomStep(c, res.room,
                        broadcast(broadcast(out, conn, res.room,
                                      [type |-> "text:add", text |-> res.ret[1]]),
                                  conn, res.room, RedoCountMsg(res.room)))

ImageAddToOthers(c, image) ==
    /\ InRoom(c)
    /\ LET res == addImage(Room(c), image)
           toAll == broadcast(broadcast(out, conn, res.room,
                                  [type |-> "image:add", image |-> res.ret[1]]),
                              conn, res.room, RedoCountMsg(res.room))
       IN IF res.ret = None THEN RoomStep(c, Room(c), out)
          ELSE RoomStep(c, res.room, [toAll EXCEPT ![c] = out[c]])

ImageAdd(c, image) ==
    /\ InRoom(c)
    /\ LET res == addImage(Room(c), image)
       IN IF res.ret = None THEN RoomStep(c, Room(c), out)
          ELSE RoomStep(c, res.room,
                        broadcast(broadcast(out, conn, res.room,
                                      [type |-> "image:add", image |-> res.ret[1]]),
                                  conn, res.room, RedoCountMsg(res.room)))

UndoErrorWhenEmpty(c) ==
    /\ InRoom(c)
    /\ LET room == undo(Room(c)).room
       IN IF Room(c).committedIds = <<>>
          THEN RoomStep(c, room, send(out, conn, c, ErrorMsg("Nothing to undo.")))
          ELSE RoomStep(c, room,
                        broadcast(out, conn, room, buildStatePayload(room)))

Undo(c) ==
    /\ InRoom(c)
    /\ LET room == undo(Room(c)).room
       IN RoomStep(c, room, broadcast(out, conn, room, buildStatePayload(room)))

Redo(c) ==
    /\ InRoom(c)
    /\ LET room == redo(Room(c)).room
       IN RoomStep(c, room, broadcast(out, conn, room, buildStatePayload(room)))

Clear(c) ==
    /\ InRoom(c)
    /\ LET room == clear(Room(c))
       IN RoomStep(c, room,
                   broadcast(broadcast(out, conn, room, [type |-> "clear"]),
                             conn, room, buildStatePayload(room)))

\* Sessions are never deleted, so the sessions saved so far number the
\* freshly generated session ids.
SessionCount == LET RECURSIVE Sum(_)
                    Sum(S) == IF S = {} THEN 0
                              ELSE LET r == CHOOSE x \in S : TRUE
                                   IN Len(rooms[r].sessions) + Sum(S \ {r})
                IN Sum(DOMAIN rooms)

\* tick: how far Date.now() has advanced since the previous save;
\* ok: whether the snapshot write succeeds.
SaveSessionFailureIsError(c, name, tick, ok) ==
    /\ InRoom(c)
    /\ LET res == saveSession(Room(c), name, SessionCount + 1, now + tick)
           saved == send(out, conn, c,
                         [type |-> "session-saved",
                          sessionId |-> res.ret.sessionId, name |-> res.ret.name])
       IN /\ rooms' = SetRoom(c, res.room)
          /\ out' = IF ok
                    THEN broadcast(saved, conn, res.room,
                                   [type |-> "session-list",
                                    sessions |-> buildSessionList(res.room)])
                    ELSE send(out, conn, c, ErrorMsg("Save failed."))
          /\ disk' = saveRoomSnapshot(serializeRooms(SetRoom(c, res.room)), ok)
    /\ now' = now + tick
    /\ nCmds' = nCmds + 1
    /\ UNCHANGED <<clientCounter, conn, currentRoom, client>>

SaveSession(c, name, tick, ok) ==
    /\ InRoom(c)
    /\ LET res == saveSession(Room(c), name, SessionCount + 1, now + tick)
           saved == send(out, conn, c,
                         [type |-> "session-saved",
                          sessionId |-> res.ret.sessionId, name |-> res.ret.name])
       IN /\ rooms' = SetRoom(c, res.room)
          /\ out' = broadcast(saved, conn, res.room,
                              [type |-> "session-list",
                               sessions |-> buildSessionList(res.room)])
          /\ disk' = saveRoomSnapshot(serializeRooms(SetRoom(c, res.room)), ok)
    /\ now' = now + tick
    /\ nCmds' = nCmds + 1
    /\ UNCHANGED <<clientCounter, conn, currentRoom, client>>

LoadSessionErrorToAll(c, sessionId) ==
    /\ InRoom(c)
    /\ LET res == loadSession(Room(c), sessionId)
       IN IF res.ret # None
          THEN RoomStep(c, res.room,
                   broadcast(broadcast(out, conn, res.room,
                                 [type |-> "session-loaded",
                                  sessionId |-> sessionId,
                                  elements |-> res.ret[1]]),
                             conn, res.room, buildStatePayload(res.room)))
          ELSE RoomStep(c, Room(c),
                        broadcast(out, conn, Room(c),
                                  ErrorMsg("Session not found.")))

LoadSession(c, sessionId) ==
    /\ InRoom(c)
    /\ LET res == loadSession(Room(c), sessionId)
       IN IF res.ret # None
          THEN RoomStep(c, res.room,
                   broadcast(broadcast(out, conn, res.room,
                                 [type |-> "session-loaded",
                                  sessionId |-> sessionId,
                                  elements |-> res.ret[1]]),
                             conn, res.room, buildStatePayload(res.room)))
          ELSE RoomStep(c, Room(c),
                        send(out, conn, c, ErrorMsg("Session not found.")))

UnknownTypeErrorToRoom(c) ==
    /\ InRoom(c)
    /\ RoomStep(c, Room(c),
                broadcast(out, conn, Room(c), ErrorMsg("Unknown message type")))

\* The default case of the switch.
UnknownType(c) ==
    /\ InRoom(c)
    /\ RoomStep(c, Room(c), send(out, conn, c, ErrorMsg("Unknown message type")))

\* socket.on('close'): the socket is no longer open when the handler runs.
\* Messages still in flight to the closed connection are lost.
Close(c) ==
    /\ conn[c] = "open"
    /\ conn' = [conn EXCEPT ![c] = "closed"]
    /\ IF currentRoom[c] # Null
       THEN LET left == [Room(c) EXCEPT !.clients = MapDelete(@, c)]
                lost == [out EXCEPT ![c] = <<>>]
            IN IF Len(left.clients) = 0
               THEN /\ rooms' = SetRoom(c, clear(left))
                    /\ out' = lost
               ELSE /\ rooms' = SetRoom(c, left)
                    /\ out' = broadcast(lost, conn', left, buildStatePayload(left))
       ELSE /\ rooms' = rooms
            /\ out' = [out EXCEPT ![c] = <<>>]
    /\ UNCHANGED <<disk, now, clientCounter, currentRoom, client, nCmds, inbox>>

\* ------------------------------------------- hooks/use-collab-socket (client)
\* Array.prototype.findIndex on the id, 1-based; 0 when there is none.
FindIndex(s, id) ==
    IF \E i \in DOMAIN s : s[i].id = id
    THEN CHOOSE i \in DOMAIN s : s[i].id = id /\ \A j \in 1 .. (i - 1) : s[j].id # id
    ELSE 0

\* Replace the first entry with the element's id, or push the element.
UpsertInList(list, element) ==
    LET index == FindIndex(list, element.id)
    IN IF index > 0 THEN [list EXCEPT ![index] = element]
       ELSE Append(list, element)

OnMessage(prev, message) ==
    CASE message.type = "welcome" ->
            [prev EXCEPT !.clientId = message.id, !.roomId = message.roomId,
                         !.roomType = Or(message.roomType, Null)]
      [] message.type = "state" ->
            [prev EXCEPT !.users = message.users, !.cursors = message.cursors,
                         !.paths = message.paths, !.shapes = message.shapes,
                         !.texts = message.texts, !.images = message.images,
                         !.redoCount = message.redoCount,
                         !.sessions = message.sessions,
                         !.roomType = Or(message.roomType, Null)]
      [] message.type = "cursor" ->
            LET index == FindIndex(prev.cursors, message.id)
                userIndex == FindIndex(prev.users, message.id)
                nextCursor ==
                    [id |-> message.id,
                     name |-> IF userIndex > 0 THEN Or(prev.users[userIndex].name, "Anonymous")
                              ELSE "Anonymous",
                     color |-> IF userIndex > 0 THEN Or(prev.users[userIndex].color, "#4F46E5")
                               ELSE "#4F46E5",
                     position |-> message.position]
            IN [prev EXCEPT !.cursors =
                   IF index > 0 THEN [@ EXCEPT ![index].position = message.position]
                   ELSE Append(@, nextCursor)]
      [] message.type = "path:upsert" ->
            [prev EXCEPT !.paths = UpsertInList(@, message.path)]
      [] message.type = "shape:upsert" ->
            [prev EXCEPT !.shapes = UpsertInList(@, message.shape)]
      [] message.type = "text:add" ->
            [prev EXCEPT !.texts = Append(@, message.text)]
      [] message.type = "image:add" ->
            [prev EXCEPT !.images = Append(@, message.image)]
      [] message.type = "redo-count" ->
            [prev EXCEPT !.redoCount = message.redoCount]
      [] message.type = "clear" ->
            [prev EXCEPT !.paths = <<>>, !.shapes = <<>>, !.texts = <<>>,
                         !.images = <<>>, !.redoCount = 0]
      [] message.type = "session-list" ->
            [prev EXCEPT !.sessions = message.sessions]
      [] message.type = "session-loaded" ->
            [prev EXCEPT !.lastLoadedSessionId = message.sessionId]
      [] OTHER -> prev

\* The client receives the oldest message in flight to it.
Deliver(c) ==
    /\ conn[c] = "open"
    /\ out[c] # <<>>
    /\ client' = [client EXCEPT ![c] = OnMessage(@, Head(out[c]))]
    /\ out' = [out EXCEPT ![c] = Tail(@)]
    /\ UNCHANGED <<rooms, disk, now, clientCounter, conn, currentRoom, nCmds,
                   inbox>>

\* ------------------------------------------------------------------ inputs
Ids == {"e1", "e2"}

Element(id, type, status, content, dataUrl, data) ==
    [id |-> id, type |-> type, status |-> status,
     content |-> content, dataUrl |-> dataUrl, data |-> data]

\* What a message may carry as its path, shape, text or image: nothing, an
\* element without an id, or an element typed as the client types it.
PathInputs ==
    {None, Some(Element(Undef, "path", Undef, Undef, Undef, 0)),
     Some(Element("e1", "path", Undef, Undef, Undef, 0)),
     Some(Element("e1", "path", "in-progress", Undef, Undef, 1))}

ShapeInputs ==
    {None} \cup {Some(Element(id, "rectangle", Undef, Undef, Undef, 0)) : id \in Ids}

\* The server takes any object with an id as a text: the last one has no
\* content.
TextInputs ==
    {Some(Element(Undef, Undef, Undef, "text", Undef, 0))}
    \cup {Some(Element(id, Undef, Undef, "text", Undef, 0)) : id \in Ids}
    \cup {Some(Element("e2", Undef, Undef, Undef, Undef, 0))}

ImageInputs ==
    {None, Some(Element("e2", Undef, Undef, Undef, "data:", 0))}

CommitInputs == Ids \cup {Undef}

JoinInputs ==
    [name : {"ann"}, roomId : {Undef, "secret"},
     roomType : {Undef, "private"}, password : {Undef, " ", "x", "y"}]

DefaultJoin == [name |-> "ann", roomId |-> Undef, roomType |-> Undef,
                password |-> Undef]

\* Joins whose password is the number 1234, written as the string of its
\* digits: JoinNonTextPassword never reads it as a text.
NonTextJoinInputs ==
    [name : {"ann"}, roomId : {Undef, "secret"},
     roomType : {Undef, "private"}, password : {"1234"}]

SessionIdInputs == 1 .. (MaxSessions + 1)

\* A load-session without a session id: sessions.get(undefined) finds
\* nothing, as with the id 0, which no session has.
NoSessionId == 0

\* --------------------------------------------------------- specifications
\* The server's handling of a message reads no queue and no client state, and
\* a client only consumes its own queue in order. So in every specification
\* the server takes a message only when the messages of the steps before it
\* have been received (Quiet): this drops interleavings of Deliver with the
\* server's steps, and no state of the server or final state of a client.
\* Close is taken at any time, also with messages in flight.
Quiet == \A c \in Conns : out[c] = <<>>

\* The message is handled as it arrives: none waits in an inbox.
Direct == UNCHANGED inbox

\* Spec: the connection gateway and the registry. Every kind of join in two
\* rooms; of the drawing commands, one delta (text:add) and one snapshot
\* command (undo).
Ready == nCmds < MaxCmds /\ Quiet

GatewayStep ==
    \/ \E c \in Conns : Ready /\ Direct /\ Malformed(c, "Invalid JSON payload.")
    \/ \E c \in Conns : Ready /\ Direct /\ Malformed(c, "Message type is required.")
    \/ \E c \in Conns, m \in JoinInputs, ok \in BOOLEAN : Ready /\ Direct /\ Join(c, m, ok)
    \/ \E c \in Conns : Ready /\ Direct /\ NotJoined(c)
    \/ \E c \in Conns :
          Ready /\ Direct /\ TextAdd(c, Some(Element("e1", Undef, Undef, "text", Undef, 0)))
    \/ \E c \in Conns : Ready /\ Direct /\ Undo(c)
    \/ \E c \in Conns : Ready /\ Direct /\ UnknownType(c)

Next ==
    \/ Connect
    \/ GatewayStep
    \/ \E c \in Conns : Close(c)
    \/ \E c \in Conns : Deliver(c)

Spec == Init /\ [][Next]_vars

\* SpecDraw: the room state engine. Every drawing command with every input,
\* in the default public room.
ReadyDraw == nCmds < MaxDrawCmds /\ Quiet

DrawStep ==
    \/ \E c \in Conns : ReadyDraw /\ Direct /\ Join(c, DefaultJoin, TRUE)
    \/ \E c \in Conns : ReadyDraw /\ Direct /\ Cursor(c, "(1,1)")
    \/ \E c \in Conns, path \in PathInputs : ReadyDraw /\ Direct /\ PathUpsert(c, path)
    \/ \E c \in Conns, id \in CommitInputs : ReadyDraw /\ Direct /\ PathCommit(c, id)
    \/ \E c \in Conns, shape \in ShapeInputs : ReadyDraw /\ Direct /\ ShapeUpsert(c, shape)
    \/ \E c \in Conns, id \in CommitInputs : ReadyDraw /\ Direct /\ ShapeCommit(c, id)
    \/ \E c \in Conns, text \in TextInputs : ReadyDraw /\ Direct /\ TextAdd(c, text)
    \/ \E c \in Conns, image \in ImageInputs : ReadyDraw /\ Direct /\ ImageAdd(c, image)
    \/ \E c \in Conns : ReadyDraw /\ Direct /\ Undo(c)
    \/ \E c \in Conns : ReadyDraw /\ Direct /\ Redo(c)
    \/ \E c \in Conns : ReadyDraw /\ Direct /\ Clear(c)
    \/ \E c \in Conns, tick \in {0, 1} :
          ReadyDraw /\ Direct /\ SessionCount < MaxSessions /\ SaveSession(c, "v1", tick, TRUE)
    \/ \E c \in Conns, sessionId \in SessionIdInputs :
          ReadyDraw /\ Direct /\ LoadSession(c, sessionId)

NextDraw ==
    \/ Connect
    \/ DrawStep
    \/ \E c \in Conns : Close(c)
    \/ \E c \in Conns : Deliver(c)

SpecDraw == Init /\ [][NextDraw]_vars

\* SpecHistory: the history of one id. The commands that store, commit, undo
\* and redo the id e1, as a path, a shape and a text, one command deeper
\* than SpecDraw.
HistoryPath == Some(Element("e1", "path", Undef, Undef, Undef, 0))

HistoryShape == Some(Element("e1", "rectangle", Undef, Undef, Undef, 0))

HistoryText == Some(Element("e1", Undef, Undef, "text", Undef, 0))

ReadyHistory == nCmds < MaxHistoryCmds /\ Quiet

HistoryStep ==
    \/ \E c \in Conns : ReadyHistory /\ Direct /\ Join(c, DefaultJoin, TRUE)
    \/ \E c \in Conns : ReadyHistory /\ Direct /\ PathUpsert(c, HistoryPath)
    \/ \E c \in Conns : ReadyHistory /\ Direct /\ PathCommit(c, "e1")
    \/ \E c \in Conns : ReadyHistory /\ Direct /\ ShapeUpsert(c, HistoryShape)
    \/ \E c \in Conns : ReadyHistory /\ Direct /\ ShapeCommit(c, "e1")
    \/ \E c \in Conns : ReadyHistory /\ Direct /\ TextAdd(c, HistoryText)
    \/ \E c \in Conns : ReadyHistory /\ Direct /\ Undo(c)
    \/ \E c \in Conns : ReadyHistory /\ Direct /\ Redo(c)

NextHistory ==
    \/ Connect
    \/ HistoryStep
    \/ \E c \in Conns : Close(c)
    \/ \E c \in Conns : Deliver(c)

SpecHistory == Init /\ [][NextHistory]_vars

\* SpecRobust: messages with absent and wrongly typed fields. Joins with and
\* without a text password in two rooms, and the in-room commands with their
\* element, id, position, name or session id missing.
RobustStep ==
    \/ \E c \in Conns, m \in JoinInputs : Ready /\ Direct /\ Join(c, m, TRUE)
    \/ \E c \in Conns, m \in NonTextJoinInputs :
          Ready /\ Direct /\ JoinNonTextPassword(c, m, TRUE)
    \/ \E c \in Conns : Ready /\ Direct /\ Malformed(c, "Message type is required.")
    \/ \E c \in Conns : Ready /\ Direct /\ NotJoined(c)
    \/ \E c \in Conns : Ready /\ Direct /\ Cursor(c, Undef)
    \/ \E c \in Conns : Ready /\ Direct /\ PathUpsert(c, None)
    \/ \E c \in Conns : Ready /\ Direct /\ PathCommit(c, Undef)
    \/ \E c \in Conns : Ready /\ Direct /\ ShapeUpsert(c, None)
    \/ \E c \in Conns : Ready /\ Direct /\ ShapeCommit(c, Undef)
    \/ \E c \in Conns : Ready /\ Direct /\ TextAdd(c, None)
    \/ \E c \in Conns : Ready /\ Direct /\ ImageAdd(c, None)
    \/ \E c \in Conns :
          Ready /\ Direct /\ SessionCount < MaxSessions /\ SaveSession(c, Undef, 0, TRUE)
    \/ \E c \in Conns : Ready /\ Direct /\ LoadSession(c, NoSessionId)

NextRobust ==
    \/ Connect
    \/ RobustStep
    \/ \E c \in Conns : Close(c)
    \/ \E c \in Conns : Deliver(c)

SpecRobust == Init /\ [][NextRobust]_vars

\* SpecTwin: two runs of one command sequence. Each connection is the only
\* participant of a room of its own (connection 0 of the default room,
\* connection 1 of the room "secret"); every command is sent to both, and
\* the server handles the copy of connection 0 first. The clock may advance
\* or stand still at every save-session of either run, and every snapshot
\* write may succeed or fail.
MaxTwinCmds == 6
MaxTwinSessions == 4

\* A message of the protocol with none of its fields present.
ClientMessage(type) ==
    [type |-> type, name |-> Undef, roomId |-> Undef, roomType |-> Undef,
     password |-> Undef, position |-> Undef, path |-> None, shape |-> None,
     text |-> None, image |-> None, id |-> Undef, sessionId |-> NoSessionId]

\* The handler of socket.on('message') for a parsed message with a type.
\* ok: whether a snapshot write of the handler succeeds.
Handle(c, message, ok) ==
    IF message.type = "join"
    THEN Join(c, [name |-> message.name, roomId |-> message.roomId,
                  roomType |-> message.roomType,
                  password |-> message.password], ok)
    ELSE IF currentRoom[c] = Null THEN NotJoined(c)
    ELSE CASE message.type = "cursor" -> Cursor(c, message.position)
           [] message.type = "path:upsert" -> PathUpsert(c, message.path)
           [] message.type = "path:commit" -> PathCommit(c, message.id)
           [] message.type = "shape:upsert" -> ShapeUpsert(c, message.shape)
           [] message.type = "shape:commit" -> ShapeCommit(c, message.id)
           [] message.type = "text:add" -> TextAdd(c, message.text)
           [] message.type = "image:add" -> ImageAdd(c, message.image)
           [] message.type = "undo" -> Undo(c)
           [] message.type = "redo" -> Redo(c)
           [] message.type = "clear" -> Clear(c)
           [] message.type = "save-session" ->
                 \E tick \in {0, 1} : SaveSession(c, message.name, tick, ok)
           [] message.type = "load-session" -> LoadSession(c, message.sessionId)
           [] OTHER -> UnknownType(c)

TwinInputs ==
    {[ClientMessage("join") EXCEPT !.name = "ann"],
     [ClientMessage("text:add") EXCEPT
         !.text = Some(Element("e1", Undef, Undef, "text", Undef, 0))],
     ClientMessage("undo"),
     ClientMessage("clear"),
     [ClientMessage("save-session") EXCEPT !.name = "v1"]}

\* The connections of the two runs.
Runs == {0, 1}

\* The room of the run of connection c.
TwinRoomId(c) == IF c = 0 THEN Undef ELSE "secret"

Feed ==
    /\ \A c \in Runs : conn[c] = "open"
    /\ Quiet
    /\ \A c \in Conns : inbox[c] = <<>>
    /\ nCmds < Cardinality(Runs) * MaxTwinCmds
    /\ \E message \in TwinInputs :
          /\ message.type = "save-session" =>
                SessionCount + Cardinality(Runs) <= MaxTwinSessions
          /\ inbox' = [c \in Conns |->
                          IF c \in Runs
                          THEN <<[message EXCEPT !.roomId = TwinRoomId(c)]>>
                          ELSE <<>>]
    /\ UNCHANGED <<rooms, disk, now, clientCounter, conn, currentRoom, out,
                   client, nCmds>>

Serve(c) ==
    /\ inbox[c] # <<>>
    /\ \A d \in Conns : d < c => inbox[d] = <<>>
    /\ \E ok \in BOOLEAN : Handle(c, Head(inbox[c]), ok)
    /\ inbox' = [inbox EXCEPT ![c] = Tail(@)]

Receive(c) ==
    /\ \A d \in Conns : inbox[d] = <<>>
    /\ Deliver(c)

NextTwin ==
    \/ Connect
    \/ Feed
    \/ \E c \in Conns : Serve(c)
    \/ \E c \in Conns : Receive(c)

SpecTwin == Init /\ [][NextTwin]_vars

\* ------------------------------------------------------------------ claims
\* The ids registered in a room's membership.
Members(room) == {room.clients[i].id : i \in DOMAIN room.clients}

\* The live content and history of a room; a collection is the set of its
\* elements (an id maps to one element, and the order of a Map is no content).
Content(room) ==
    [paths |-> SeqToSet(room.pathsById), shapes |-> SeqToSet(room.shapesById),
     texts |-> SeqToSet(room.textsById), images |-> SeqToSet(room.imagesById),
     committedIds |-> room.committedIds, redoStack |-> room.redoStack]

InSomeCollection(room, id) ==
    \/ MapHas(room.pathsById, id) \/ MapHas(room.shapesById, id)
    \/ MapHas(room.textsById, id) \/ MapHas(room.imagesById, id)

\* An array holds the values of a Map: the same elements, each once.
HoldsSame(list, map) ==
    /\ SeqToSet(list) = SeqToSet(map)
    /\ Len(list) = Len(map)

\* C1: once every message sent has been received, each client joined to a
\* room holds the paths, shapes, texts, images and redoCount of that room.
C1_Converged ==
    Quiet =>
        \A c \in Conns :
            (conn[c] = "open" /\ currentRoom[c] # Null) =>
                LET room == rooms[currentRoom[c]]
                IN /\ HoldsSame(client[c].paths, room.pathsById)
                   /\ HoldsSame(client[c].shapes, room.shapesById)
                   /\ HoldsSame(client[c].texts, room.textsById)
                   /\ HoldsSame(client[c].images, room.imagesById)
                   /\ client[c].redoCount = Len(room.redoStack)

\* C2: committedIds holds no id twice, and every id in it is in one of the
\* four collections.
C2_CommittedIdsUniqueAndPresent ==
    \A r \in DOMAIN rooms :
        LET ids == rooms[r].committedIds
        IN /\ \A i, j \in DOMAIN ids : ids[i] = ids[j] => i = j
           /\ \A i \in DOMAIN ids : InSomeCollection(rooms[r], ids[i])

\* C3: in every room with a non-empty committedIds, undo followed by redo
\* gives back the collections, committedIds and redoStack.
C3_UndoRedoRoundTrip ==
    \A r \in DOMAIN rooms :
        rooms[r].committedIds # <<>> =>
            Content(redo(undo(rooms[r]).room).room) = Content(rooms[r])

RECURSIVE UndoTimes(_, _)
UndoTimes(room, k) == IF k = 0 THEN room ELSE UndoTimes(undo(room).room, k - 1)

RECURSIVE RedoTimes(_, _)
RedoTimes(room, k) == IF k = 0 THEN room ELSE RedoTimes(redo(room).room, k - 1)

\* C5: undo removes the element of the last id of committedIds, redo brings
\* back the element undone last, and k undos followed by k redos leave
\* committedIds as it was.
C5_UndoRedoLifo ==
    \A r \in DOMAIN rooms :
        LET room == rooms[r]
        IN /\ room.committedIds # <<>> =>
                 /\ undo(room).ret # None
                 /\ undo(room).ret[1].id = Last(room.committedIds)
           /\ room.redoStack # <<>> =>
                 /\ redo(room).ret[1].id = Last(room.redoStack).id
                 /\ InSomeCollection(redo(room).room, Last(room.redoStack).id)
           /\ \A k \in 1 .. Len(room.committedIds) :
                 RedoTimes(UndoTimes(room, k), k).committedIds = room.committedIds

\* The state snapshots among the messages a step added to a queue.
Added(c) == SubSeq(out'[c], Len(out[c]) + 1, Len(out'[c]))

SnapshotsAdded(c) == SelectSeq(Added(c), LAMBDA message : message.type = "state")

\* Every participant of the room whose connection is open got the messages of
\* the step after those it had, among them one snapshot: that of the room
\* after the step.
SnapshotSent(r) ==
    \A d \in Members(rooms'[r]) :
        conn'[d] = "open" =>
            /\ Len(out'[d]) > Len(out[d])
            /\ SubSeq(out'[d], 1, Len(out[d])) = out[d]
            /\ SnapshotsAdded(d) = <<buildStatePayload(rooms'[r])>>

\* C6: after a join, an undo, a redo, a clear, a load-session and a departure
\* that leaves participants behind, every participant in the room is sent
\* the same snapshot of the room as it is after the operation.
C6_SnapshotAfterStructuralChange ==
    [][\A c \in Conns :
          /\ (\E m \in JoinInputs, ok \in BOOLEAN :
                 Join(c, m, ok) /\ currentRoom'[c] = JoinRoomId(m)
                 /\ MapHas(rooms'[JoinRoomId(m)].clients, c)
                 /\ Len(out'[c]) >= Len(out[c]) + 2)
             => SnapshotSent(currentRoom'[c])
          /\ (Undo(c) \/ Redo(c) \/ Clear(c)) => SnapshotSent(currentRoom[c])
          /\ (\E sessionId \in SessionIdInputs :
                 LoadSession(c, sessionId)
                 /\ MapHas(Room(c).sessions, sessionId))
             => SnapshotSent(currentRoom[c])
          /\ (Close(c) /\ currentRoom[c] # Null
              /\ rooms'[currentRoom[c]].clients # <<>>)
             => SnapshotSent(currentRoom[c])
      ]_vars

\* Two participants have the same snapshot in flight, and it shows an undone
\* element.
C6_Witness ==
    \E c, d \in Conns :
        /\ c # d
        /\ out[c] # <<>> /\ out[d] # <<>>
        /\ Last(out[c]).type = "state"
        /\ Last(out[c]).redoCount = 1
        /\ Len(Last(out[c]).users) = 2
        /\ Last(out[d]) = Last(out[c])

\* The participant of connection c is newly registered in room r by the step.
Registers(c, r) ==
    /\ r \in DOMAIN rooms'
    /\ c \in Members(rooms'[r])
    /\ (r \in DOMAIN rooms => c \notin Members(rooms[r]))

\* C7: a participant enters a private room only by the join that creates the
\* room with a non-empty password or by a join whose password hashes to the
\* stored hash; a join to an existing private room with another password
\* registers nobody.
C7_PrivateRoomNeedsPassword ==
    [][/\ \A c \in Conns, r \in RoomIds :
            (Registers(c, r) /\ rooms'[r].roomType = "private") =>
                \E m \in JoinInputs, ok \in BOOLEAN :
                    /\ Join(c, m, ok)
                    /\ JoinRoomId(m) = r
                    /\ IF r \in DOMAIN rooms
                       THEN hashPassword(JoinPassword(m)) = rooms[r].passwordHash
                       ELSE JoinPassword(m) # ""
       /\ \A c \in Conns, m \in JoinInputs, ok \in BOOLEAN :
            (/\ JoinRoomId(m) \in DOMAIN rooms
             /\ rooms[JoinRoomId(m)].roomType = "private"
             /\ hashPassword(JoinPassword(m)) # rooms[JoinRoomId(m)].passwordHash
             /\ Join(c, m, ok))
            => rooms'[JoinRoomId(m)].clients = rooms[JoinRoomId(m)].clients
      ]_vars

\* A private room holds two participants, one of them after a join of its
\* connection was turned down for its password.
C7_Witness ==
    \E r \in DOMAIN rooms, c \in Conns :
        /\ rooms[r].roomType = "private"
        /\ Len(rooms[r].clients) = 2
        /\ c \in Members(rooms[r])
        /\ Includes(out[c], ErrorMsg("Invalid room password."))

\* A join the claim calls rejected: a room that does not exist, asked for as
\* private with no password, or an existing private room with a password
\* that does not hash to the stored hash.
JoinMustFail(m) ==
    IF JoinRoomId(m) \in DOMAIN rooms
    THEN /\ rooms[JoinRoomId(m)].roomType = "private"
         /\ hashPassword(JoinPassword(m)) # rooms[JoinRoomId(m)].passwordHash
    ELSE m.roomType = "private" /\ JoinPassword(m) = ""

\* C8: a rejected join changes no room, no membership, not the snapshot on
\* disk and not the connection's room, and sends one error, to the sender.
C8_RejectedJoinChangesNothing ==
    [][\A c \in Conns, m \in JoinInputs, ok \in BOOLEAN :
          (JoinMustFail(m) /\ Join(c, m, ok)) =>
              /\ rooms' = rooms
              /\ disk' = disk
              /\ currentRoom' = currentRoom
              /\ conn' = conn
              /\ \A d \in Conns \ {c} : out'[d] = out[d]
              /\ Len(out'[c]) = Len(out[c]) + 1
              /\ SubSeq(out'[c], 1, Len(out[c])) = out[c]
              /\ Last(out'[c]).type = "error"
      ]_vars

\* A connection joined to a room has been refused another, private room and
\* is still in the room it was in; somebody is in the private room.
C8_Witness ==
    \E c \in Conns, r \in DOMAIN rooms :
        /\ currentRoom[c] # Null /\ currentRoom[c] # r
        /\ rooms[r].roomType = "private"
        /\ rooms[r].clients # <<>>
        /\ c \notin Members(rooms[r])
        /\ out[c] # <<>>
        /\ Last(out[c]) = ErrorMsg("Invalid room password.")

RoomsOf(c) == {r \in DOMAIN rooms : c \in Members(rooms[r])}

\* C9: a connection's participant is registered in at most one room, and in
\* none once the connection is closed.
C9_AtMostOneRoom ==
    \A c \in Conns :
        /\ Cardinality(RoomsOf(c)) <= 1
        /\ conn[c] = "closed" => RoomsOf(c) = {}

\* C10: an undo is sent to exactly the open connections whose room is the
\* sender's, and a snapshot a connection is sent is the snapshot of the room
\* the connection is in.
C10_BroadcastStaysInRoom ==
    [][/\ \A a \in Conns :
            Undo(a) => {c \in Conns : Len(out'[c]) > Len(out[c])}
                       = {c \in Conns : conn[c] = "open"
                                        /\ currentRoom[c] = currentRoom[a]}
       /\ \A c \in Conns :
            (Len(out'[c]) > Len(out[c]) /\ Last(out'[c]).type = "state") =>
                /\ currentRoom'[c] # Null
                /\ Last(out'[c]) = buildStatePayload(rooms'[currentRoom'[c]])
      ]_vars

\* C11: a step changes at most one room: a join the room it asks for, an
\* in-room command and a close the sender's current room. Every other room
\* keeps its membership, collections, committedIds, redoStack and sessions.
C11_OtherRoomsUntouched ==
    [][/\ \A r \in DOMAIN rooms :
            rooms'[r] # rooms[r] =>
                \A q \in DOMAIN rooms \ {r} : rooms'[q] = rooms[q]
       /\ \A c \in Conns :
            (/\ currentRoom[c] # Null
             /\ \/ TextAdd(c, Some(Element("e1", Undef, Undef, "text", Undef, 0)))
                \/ Undo(c) \/ UnknownType(c) \/ Close(c))
            => \A q \in DOMAIN rooms \ {currentRoom[c]} : rooms'[q] = rooms[q]
       /\ \A c \in Conns, m \in JoinInputs, ok \in BOOLEAN :
            Join(c, m, ok) =>
                \A q \in DOMAIN rooms \ {JoinRoomId(m)} : rooms'[q] = rooms[q]
      ]_vars

\* Two rooms with a participant each, and a text was added in one of them
\* only.
C11_Witness ==
    \E c, d \in Conns :
        /\ c # d
        /\ currentRoom[c] # Null /\ currentRoom[d] # Null
        /\ currentRoom[c] # currentRoom[d]
        /\ Members(Room(c)) = {c} /\ Members(Room(d)) = {d}
        /\ Room(c).committedIds = <<"e1">>
        /\ Room(d).committedIds = <<>>

\* The collections of a room that hold an element under the id.
CollectionsHolding(room, id) ==
    {k \in {"pathsById", "shapesById", "textsById", "imagesById"} :
        MapHas(room[k], id)}

\* C12: in every room, no id is in more than one of the four collections.
C12_OneCollectionPerId ==
    \A r \in DOMAIN rooms, id \in Ids :
        Cardinality(CollectionsHolding(rooms[r], id)) <= 1

\* C13: in every room, no id of an entry of redoStack is in one of the four
\* collections.
C13_RedoIdsNotStored ==
    \A r \in DOMAIN rooms :
        \A i \in DOMAIN rooms[r].redoStack :
            ~InSomeCollection(rooms[r], rooms[r].redoStack[i].id)

\* C14: in every room, every id of committedIds is the id of a stored
\* element, and every element stored under it has status committed.
C14_CommittedIdsAreCommitted ==
    \A r \in DOMAIN rooms :
        \A i \in DOMAIN rooms[r].committedIds :
            LET id == rooms[r].committedIds[i]
            IN /\ InSomeCollection(rooms[r], id)
               /\ \A k \in CollectionsHolding(rooms[r], id) :
                      MapGet(rooms[r][k], id).status = "committed"

\* A path or shape with an id and no status of its own.
WithoutStatus(element) ==
    /\ element # None
    /\ Truthy(element[1].id)
    /\ element[1].status = Undef

InheritedStatus(room, id) ==
    IF Includes(room.committedIds, id) THEN "committed" ELSE "in-progress"

\* The step sent every participant with an open connection one delta of the
\* kind, carrying the id with the status.
DeltaSent(r, kind, field, id, status) ==
    \A d \in Members(rooms'[r]) :
        conn[d] = "open" =>
            /\ Len(out'[d]) = Len(out[d]) + 1
            /\ Last(out'[d]).type = kind
            /\ Last(out'[d])[field].id = id
            /\ Last(out'[d])[field].status = status

\* Every element of the list that has the id has the status, and there is
\* one.
ShownAs(list, id, status) ==
    /\ \E i \in DOMAIN list : list[i].id = id
    /\ \A i \in DOMAIN list : list[i].id = id => list[i].status = status

\* C15: a path or shape upserted without a status is stored and broadcast
\* as committed when its id is in committedIds and as in-progress when it is
\* not, and the snapshot of the room after the upsert shows it so.
C15_UpsertInheritsStatus ==
    [][\A c \in Conns :
          /\ \A path \in PathInputs :
                (WithoutStatus(path) /\ PathUpsert(c, path)) =>
                    LET id == path[1].id
                        status == InheritedStatus(Room(c), id)
                        after == rooms'[currentRoom[c]]
                    IN /\ MapGet(after.pathsById, id).status = status
                       /\ DeltaSent(currentRoom[c], "path:upsert", "path", id, status)
                       /\ ShownAs(buildStatePayload(after).paths, id, status)
          /\ \A shape \in ShapeInputs :
                (WithoutStatus(shape) /\ ShapeUpsert(c, shape)) =>
                    LET id == shape[1].id
                        status == InheritedStatus(Room(c), id)
                        after == rooms'[currentRoom[c]]
                    IN /\ MapGet(after.shapesById, id).status = status
                       /\ DeltaSent(currentRoom[c], "shape:upsert", "shape", id, status)
                       /\ ShownAs(buildStatePayload(after).shapes, id, status)
      ]_vars

\* A path was committed and upserted again without a status: its delta, in
\* flight with nothing behind it, says committed. No other collection holds
\* the id, so it was committed as a path.
C15_Witness ==
    \E c \in Conns :
        /\ out[c] # <<>>
        /\ Last(out[c]).type = "path:upsert"
        /\ Last(out[c]).path.status = "committed"
        /\ currentRoom[c] # Null
        /\ Includes(Room(c).committedIds, Last(out[c]).path.id)
        /\ MapGet(Room(c).pathsById, Last(out[c]).path.id).status = "committed"
        /\ CollectionsHolding(Room(c), Last(out[c]).path.id) = {"pathsById"}

\* An element without its lifecycle position.
ContentOf(element) == [element EXCEPT !.status = Undef]

\* C16: an upsert leaves every committed element (its id in committedIds,
\* its status committed) stored with the content it had.
C16_CommittedContentFrozen ==
    [][\A c \in Conns :
          (\/ \E path \in PathInputs : PathUpsert(c, path)
           \/ \E shape \in ShapeInputs : ShapeUpsert(c, shape))
          => \A id \in Ids :
                 \A k \in CollectionsHolding(Room(c), id) :
                     (/\ Includes(Room(c).committedIds, id)
                      /\ MapGet(Room(c)[k], id).status = "committed")
                     => /\ MapHas(rooms'[currentRoom[c]][k], id)
                        /\ ContentOf(MapGet(rooms'[currentRoom[c]][k], id))
                               = ContentOf(MapGet(Room(c)[k], id))
      ]_vars

\* How many times the sequence holds the value.
Count(s, v) == Cardinality({i \in DOMAIN s : s[i] = v})

\* What the claim says of a commit of the id in the collection: on an id no
\* collection holds, nothing changes and nothing is sent; on an id the
\* collection holds, the element is committed and the id is in committedIds
\* once, where it was or at the end.
CommitAsClaimed(c, k, id) ==
    LET before == Room(c)
        after == rooms'[currentRoom[c]]
    IN /\ ~InSomeCollection(before, id) => (rooms' = rooms /\ out' = out)
       /\ MapHas(before[k], id) =>
             /\ MapGet(after[k], id).status = "committed"
             /\ ContentOf(MapGet(after[k], id)) = ContentOf(MapGet(before[k], id))
             /\ Count(after.committedIds, id) = 1
             /\ after.committedIds =
                    IF Includes(before.committedIds, id)
                    THEN before.committedIds
                    ELSE Append(before.committedIds, id)

\* C17: a path:commit or shape:commit of an id that is in no collection
\* changes nothing and sends nothing; of an id its collection holds, it marks
\* the element committed and leaves the id in committedIds exactly once.
C17_CommitOnceOrNothing ==
    [][\A c \in Conns, id \in CommitInputs :
          /\ PathCommit(c, id) => CommitAsClaimed(c, "pathsById", id)
          /\ ShapeCommit(c, id) => CommitAsClaimed(c, "shapesById", id)
      ]_vars

\* The room has no element and no history.
Emptied(room) ==
    /\ room.pathsById = <<>> /\ room.shapesById = <<>>
    /\ room.textsById = <<>> /\ room.imagesById = <<>>
    /\ room.committedIds = <<>> /\ room.redoStack = <<>>

\* The room's sessions, membership, type and password hash are those of the
\* other.
SameStanding(a, b) ==
    /\ a.sessions = b.sessions /\ a.clients = b.clients
    /\ a.roomType = b.roomType /\ a.passwordHash = b.passwordHash

\* C18: clear empties the four collections, committedIds and redoStack of
\* the sender's room and keeps its sessions, membership, roomType and
\* passwordHash; an undo or a redo on the room as clear leaves it changes no
\* room.
C18_ClearEmptiesLiveState ==
    [][\A c \in Conns :
          /\ Clear(c) =>
                LET after == rooms'[currentRoom[c]]
                IN /\ Emptied(after)
                   /\ SameStanding(after, Room(c))
                   /\ undo(after).room = after
                   /\ redo(after).room = after
          /\ ((Undo(c) \/ Redo(c)) /\ Emptied(Room(c))) => rooms' = rooms
      ]_vars

\* The messages of a clear are in flight to a client that still shows a
\* text; the room is empty and has kept its session.
C18_Witness ==
    \E c \in Conns :
        /\ Len(out[c]) = 2
        /\ out[c][1].type = "clear"
        /\ out[c][2].type = "state"
        /\ currentRoom[c] # Null
        /\ Emptied(Room(c))
        /\ Room(c).sessions # <<>>
        /\ client[c].texts # <<>>

\* The elements the four collections of the room hold.
LiveElements(room) ==
    SeqToSet(room.pathsById) \cup SeqToSet(room.shapesById)
    \cup SeqToSet(room.textsById) \cup SeqToSet(room.imagesById)

LiveCount(room) ==
    Len(room.pathsById) + Len(room.shapesById)
    + Len(room.textsById) + Len(room.imagesById)

SessionIds(room) == {room.sessions[i].id : i \in DOMAIN room.sessions}

\* C19: save-session adds one session, holding the elements the four
\* collections hold, and changes no collection, committedIds or redoStack;
\* and no step changes the elements (or the name or time) of a session a
\* room already has.
C19_SessionIsFrozenCopy ==
    [][/\ \A c \in Conns, tick \in {0, 1}, ok \in BOOLEAN :
            SaveSession(c, "v1", tick, ok) =>
                LET before == Room(c)
                    after == rooms'[currentRoom[c]]
                    added == SessionIds(after) \ SessionIds(before)
                IN /\ Cardinality(added) = 1
                   /\ Len(after.sessions) = Len(before.sessions) + 1
                   /\ \A sid \in added :
                         LET elements == MapGet(after.sessions, sid).elements
                         IN /\ SeqToSet(elements) = LiveElements(before)
                            /\ Len(elements) = LiveCount(before)
                   /\ after.pathsById = before.pathsById
                   /\ after.shapesById = before.shapesById
                   /\ after.textsById = before.textsById
                   /\ after.imagesById = before.imagesById
                   /\ after.committedIds = before.committedIds
                   /\ after.redoStack = before.redoStack
       /\ \A r \in DOMAIN rooms :
            \A sid \in SessionIds(rooms[r]) :
                /\ sid \in SessionIds(rooms'[r])
                /\ MapGet(rooms'[r].sessions, sid) = MapGet(rooms[r].sessions, sid)
      ]_vars

\* A room has a session that holds an element, and its live content is no
\* longer what the session holds: a command changed it after the save.
C19_Witness ==
    \E r \in DOMAIN rooms :
        \E i \in DOMAIN rooms[r].sessions :
            /\ rooms[r].sessions[i].elements # <<>>
            /\ SeqToSet(rooms[r].sessions[i].elements) # LiveElements(rooms[r])
            /\ rooms[r].clients # <<>>

\* The ids of the elements of the list whose status is committed, in the
\* order of the list.
RECURSIVE CommittedIdsOf(_)
CommittedIdsOf(elements) ==
    IF elements = <<>> THEN <<>>
    ELSE IF Head(elements).status = "committed"
         THEN <<Head(elements).id>> \o CommittedIdsOf(Tail(elements))
         ELSE CommittedIdsOf(Tail(elements))

\* C20: load-session of a session the room has leaves the room with exactly
\* the session's elements, each stored as the session holds it (status
\* included) in the collection of its kind, with committedIds the ids of the
\* elements stored as committed in the order of the session's list, and
\* with an empty redoStack.
C20_LoadRestoresSession ==
    [][\A c \in Conns, sessionId \in SessionIdInputs :
          (LoadSession(c, sessionId) /\ MapHas(Room(c).sessions, sessionId)) =>
              LET elements == MapGet(Room(c).sessions, sessionId).elements
                  after == rooms'[currentRoom[c]]
              IN /\ LiveElements(after) = SeqToSet(elements)
                 /\ LiveCount(after) = Len(elements)
                 /\ \A i \in DOMAIN elements :
                       /\ CollectionOf(elements[i]) # "none"
                       /\ MapHas(after[CollectionOf(elements[i])], elements[i].id)
                       /\ MapGet(after[CollectionOf(elements[i])], elements[i].id)
                              = elements[i]
                 /\ after.committedIds = CommittedIdsOf(elements)
                 /\ after.redoStack = <<>>
      ]_vars

\* C21: loading a session on the room a load of that session has left gives
\* the same room (collections, committedIds, redoStack, sessions) and the
\* same elements back; so for the room a load-session step leaves, and for
\* every room and every session it has.
C21_LoadTwiceIsLoadOnce ==
    [][/\ \A c \in Conns, sessionId \in SessionIdInputs :
            (LoadSession(c, sessionId) /\ MapHas(Room(c).sessions, sessionId)) =>
                LET once == rooms'[currentRoom[c]]
                IN /\ loadSession(once, sessionId).room = once
                   /\ loadSession(once, sessionId).ret
                          = loadSession(Room(c), sessionId).ret
       /\ \A r \in DOMAIN rooms :
            \A sessionId \in SessionIds(rooms[r]) :
                LET once == loadSession(rooms[r], sessionId).room
                IN loadSession(once, sessionId).room = once
      ]_vars

\* A load of a session that holds a committed element has been processed
\* and its messages are in flight.
C21_Witness ==
    \E c \in Conns :
        /\ Len(out[c]) = 2
        /\ out[c][1].type = "session-loaded"
        /\ out[c][1].elements # <<>>
        /\ currentRoom[c] # Null
        /\ Room(c).committedIds # <<>>

\* C22: a load-session of a session id the sender's room does not hold
\* changes no room, and sends one message, an error, to the sender; no other
\* connection is sent anything.
C22_UnknownSessionChangesNothing ==
    [][\A c \in Conns, sessionId \in SessionIdInputs :
          (LoadSession(c, sessionId) /\ ~MapHas(Room(c).sessions, sessionId)) =>
              /\ rooms' = rooms
              /\ disk' = disk
              /\ conn' = conn /\ currentRoom' = currentRoom
              /\ out'[c] = Append(out[c], ErrorMsg("Session not found."))
              /\ \A d \in Conns \ {c} : out'[d] = out[d]
      ]_vars

\* The error is in flight to the sender, and the other participant of its
\* room, whose connection is open, is sent nothing.
C22_Witness ==
    \E c, d \in Conns :
        /\ c # d
        /\ out[c] = <<ErrorMsg("Session not found.")>>
        /\ out[d] = <<>>
        /\ currentRoom[c] # Null
        /\ Members(Room(c)) = {c, d}
        /\ conn[d] = "open"

\* The participants of the room whose connection is open.
LiveMembers(room) == {d \in Members(room) : conn[d] = "open"}

NoLiveElements(room) ==
    /\ room.pathsById = <<>> /\ room.shapesById = <<>>
    /\ room.textsById = <<>> /\ room.imagesById = <<>>

\* C23: a close that takes the last participant out of a room leaves the
\* room in the registry, emptied, with its sessions, roomType and
\* passwordHash; and a room none of whose participants has an open
\* connection has no live element.
C23_RoomWithoutLiveMembersIsEmpty ==
    [][/\ \A c \in Conns :
            (/\ Close(c)
             /\ currentRoom[c] # Null
             /\ rooms'[currentRoom[c]].clients = <<>>)
            => /\ DOMAIN rooms' = DOMAIN rooms
               /\ Emptied(rooms'[currentRoom[c]])
               /\ rooms'[currentRoom[c]].sessions = Room(c).sessions
               /\ rooms'[currentRoom[c]].roomType = Room(c).roomType
               /\ rooms'[currentRoom[c]].passwordHash = Room(c).passwordHash
       /\ \A r \in DOMAIN rooms :
            LiveMembers(rooms[r]) = {} => NoLiveElements(rooms[r])
      ]_vars

\* The step sends the sender one message, the error, sends nobody else
\* anything, and changes no room, no registry entry, not the snapshot on
\* disk, and no connection's state or room.
OnlyAnErrorToSender(c, text) ==
    /\ rooms' = rooms
    /\ disk' = disk
    /\ conn' = conn
    /\ currentRoom' = currentRoom
    /\ out'[c] = Append(out[c], ErrorMsg(text))
    /\ \A d \in Conns \ {c} : out'[d] = out[d]

\* C24: a message other than join on a connection that is in no room is
\* answered with an error to the sender only and changes nothing; the
\* connection is still in no room.
C24_UnjoinedCommandIsRefused ==
    [][\A c \in Conns :
          (/\ currentRoom[c] = Null
           /\ \/ NotJoined(c) \/ Undo(c) \/ UnknownType(c)
              \/ TextAdd(c, Some(Element("e1", Undef, Undef, "text", Undef, 0))))
          => /\ OnlyAnErrorToSender(c, "Not joined to a room.")
             /\ currentRoom'[c] = Null
      ]_vars

\* The error is in flight to a connection that is in no room, while the
\* other connection is in a room and is sent nothing.
C24_Witness ==
    \E c, d \in Conns :
        /\ c # d
        /\ currentRoom[c] = Null
        /\ out[c] = <<ErrorMsg("Not joined to a room.")>>
        /\ currentRoom[d] # Null /\ conn[d] = "open"
        /\ d \in Members(Room(d))
        /\ out[d] = <<>>

\* C25: a payload that does not decode, a payload without a string type,
\* and an unknown type on a joined connection are each answered with an
\* error to the sender only; no room, membership, connection or current
\* room changes and nobody else is sent anything.
C25_UnhandledMessageIsAnError ==
    [][\A c \in Conns :
          /\ Malformed(c, "Invalid JSON payload.")
                => OnlyAnErrorToSender(c, "Invalid JSON payload.")
          /\ Malformed(c, "Message type is required.")
                => OnlyAnErrorToSender(c, "Message type is required.")
          /\ UnknownType(c) => OnlyAnErrorToSender(c, "Unknown message type")
      ]_vars

\* The error for an unknown type is in flight to a joined connection, and
\* the other participant of its room is sent nothing.
C25_Witness ==
    \E c, d \in Conns :
        /\ c # d
        /\ out[c] = <<ErrorMsg("Unknown message type")>>
        /\ out[d] = <<>>
        /\ conn[c] = "open" /\ conn[d] = "open"
        /\ currentRoom[c] # Null
        /\ Members(Room(c)) = {c, d}

\* C26: handling a message closes no connection: after every message the
\* connections that were open are open, so the server goes on serving them.
C26_NoMessageStopsTheServer ==
    [][nCmds' # nCmds => conn' = conn]_vars

\* No message the step added to a queue is an error.
NoErrorSent ==
    \A d \in Conns :
        Len(out'[d]) >= Len(out[d]) =>
            \A i \in DOMAIN Added(d) : Added(d)[i].type # "error"

\* C27: an undo on an empty committedIds and a redo on an empty redoStack
\* change no room, send no error, and send every participant of the room
\* the snapshot of the room, the same whenever the step is taken again; the
\* operations themselves return the room they were given.
C27_EmptyUndoRedoOnlyRebroadcast ==
    [][\A c \in Conns :
          /\ (Undo(c) /\ Room(c).committedIds = <<>>) =>
                /\ rooms' = rooms
                /\ NoErrorSent
                /\ SnapshotSent(currentRoom[c])
                /\ undo(undo(Room(c)).room).room = Room(c)
                /\ buildStatePayload(undo(Room(c)).room) = buildStatePayload(Room(c))
          /\ (Redo(c) /\ Room(c).redoStack = <<>>) =>
                /\ rooms' = rooms
                /\ NoErrorSent
                /\ SnapshotSent(currentRoom[c])
                /\ redo(redo(Room(c)).room).room = Room(c)
                /\ buildStatePayload(redo(Room(c)).room) = buildStatePayload(Room(c))
      ]_vars

\* Two participants each have one snapshot in flight and nothing else, of a
\* room that holds a path and has nothing committed and nothing undone: an
\* undo or a redo that had nothing to do was processed.
C27_Witness ==
    \E c, d \in Conns :
        /\ c # d
        /\ conn[c] = "open" /\ conn[d] = "open"
        /\ currentRoom[c] # Null
        /\ Members(Room(c)) = {c, d}
        /\ Room(c).committedIds = <<>> /\ Room(c).redoStack = <<>>
        /\ Room(c).pathsById # <<>>
        /\ out[c] = <<buildStatePayload(Room(c))>>
        /\ out[d] = out[c]

\* C28: a redo that had an entry to restore leaves the restored id in
\* committedIds with its element stored again in one of the four
\* collections of the room.
C28_RedoStoresTheElementAgain ==
    [][\A c \in Conns :
          (Redo(c) /\ Room(c).redoStack # <<>>) =>
              LET id == Last(Room(c).redoStack).id
                  after == rooms'[currentRoom[c]]
              IN /\ Includes(after.committedIds, id)
                 /\ CollectionsHolding(after, id) # {}
      ]_vars

\* The elements of the room that are in progress.
InProgress(room, k) ==
    {room[k][i] : i \in {j \in DOMAIN room[k] : room[k][j].status = "in-progress"}}

\* C29: an undo or a redo leaves every element that is in progress in its
\* collection, unchanged.
C29_UndoRedoKeepInProgress ==
    [][\A c \in Conns :
          (Undo(c) \/ Redo(c)) =>
              \A k \in {"pathsById", "shapesById", "textsById", "imagesById"} :
                  \A e \in InProgress(Room(c), k) :
                      e \in InProgress(rooms'[currentRoom[c]], k)
      ]_vars

\* The elements a state snapshot shows.
ShownIn(snapshot) ==
    SeqToSet(snapshot.paths) \cup SeqToSet(snapshot.shapes)
    \cup SeqToSet(snapshot.texts) \cup SeqToSet(snapshot.images)

\* The sessions of the room with the greatest creation time.
LatestSessions(room) ==
    {s \in SeqToSet(room.sessions) :
        \A t \in SeqToSet(room.sessions) : t.createdAt <= s.createdAt}

\* C30: a join of a room that has no live element, no other participant and
\* a saved session sends the joiner a first snapshot that shows every
\* element of a session with the greatest creation time; every other join
\* leaves the collections, committedIds and redoStack of the room as they
\* were (empty, when the join creates the room).
C30_JoinLoadsLatestSession ==
    [][\A c \in Conns :
          Join(c, DefaultJoin, TRUE) =>
              LET r == JoinRoomId(DefaultJoin)
                  before == IF r \in DOMAIN rooms THEN rooms[r]
                            ELSE getOrCreateRoom(rooms, r,
                                     [roomType |-> "public",
                                      passwordHash |-> Null])[r]
                  after == rooms'[r]
              IN IF /\ NoLiveElements(before)
                    /\ Members(before) \subseteq {c}
                    /\ before.sessions # <<>>
                 THEN /\ SnapshotsAdded(c) # <<>>
                      /\ \E s \in LatestSessions(before) :
                            SeqToSet(s.elements) \subseteq ShownIn(SnapshotsAdded(c)[1])
                 ELSE /\ after.pathsById = before.pathsById
                      /\ after.shapesById = before.shapesById
                      /\ after.textsById = before.textsById
                      /\ after.imagesById = before.imagesById
                      /\ after.committedIds = before.committedIds
                      /\ after.redoStack = before.redoStack
      ]_vars

\* The room after a save-session and a load-session of the session saved.
SavedAndLoaded(room) ==
    loadSession(saveSession(room, "v1", SessionCount + 1, now).room,
                SessionCount + 1).room

\* C31: for every room, a save-session followed at once by a load-session
\* of the session it saved leaves committedIds the sequence it was before
\* the save.
C31_SaveLoadKeepsUndoOrder ==
    \A r \in DOMAIN rooms :
        SavedAndLoaded(rooms[r]).committedIds = rooms[r].committedIds

\* A room without what a run generates: participant ids, session ids and
\* creation times. Sessions are in the order of their saving.
RunRoom(room) ==
    [pathsById |-> room.pathsById, shapesById |-> room.shapesById,
     textsById |-> room.textsById, imagesById |-> room.imagesById,
     committedIds |-> room.committedIds, redoStack |-> room.redoStack,
     roomType |-> room.roomType, passwordHash |-> room.passwordHash,
     clients |-> [i \in DOMAIN room.clients |->
                    [name |-> room.clients[i].name,
                     color |-> room.clients[i].color,
                     position |-> room.clients[i].position]],
     sessions |-> [i \in DOMAIN room.sessions |->
                     [name |-> room.sessions[i].name,
                      elements |-> room.sessions[i].elements]]]

SessionNames(sessions) == [i \in DOMAIN sessions |-> sessions[i].name]

\* A message of the server without participant, room and session ids and
\* without creation times.
RunMessage(message) ==
    CASE message.type = "welcome" ->
            [type |-> "welcome", roomType |-> message.roomType]
      [] message.type = "state" ->
            [message EXCEPT
                !.users = [i \in DOMAIN @ |-> [name |-> @[i].name,
                                               color |-> @[i].color]],
                !.cursors = [i \in DOMAIN @ |-> [name |-> @[i].name,
                                                 color |-> @[i].color,
                                                 position |-> @[i].position]],
                !.sessions = SessionNames(@)]
      [] message.type = "session-saved" ->
            [type |-> "session-saved", name |-> message.name]
      [] message.type = "session-list" ->
            [type |-> "session-list", sessions |-> SessionNames(message.sessions)]
      [] OTHER -> message

RunMessages(messages) == [i \in DOMAIN messages |-> RunMessage(messages[i])]

\* C32: when the server has handled the same sequence of commands in two
\* runs, the rooms of the two runs are the same and the last command sent
\* the same messages in both, up to the ids and creation times the server
\* generates.
C32_SameCommandsSameState ==
    [][Serve(1) =>
          /\ RunMessages(out'[1]) = RunMessages(out'[0])
          /\ (currentRoom'[0] = Null) = (currentRoom'[1] = Null)
          /\ currentRoom'[0] # Null =>
                RunRoom(rooms'[currentRoom'[0]]) = RunRoom(rooms'[currentRoom'[1]])
      ]_vars

\* The first color of the palette that none of the colors given is.
FirstColorNotIn(colors) ==
    LET free == {k \in DOMAIN USER_COLORS : USER_COLORS[k] \notin colors}
    IN USER_COLORS[CHOOSE k \in free : \A j \in free : k <= j]

\* The colors of the participants of the room other than c.
ColorsOfOthers(room, c) ==
    {room.clients[i].color : i \in {j \in DOMAIN room.clients : room.clients[j].id # c}}

\* C33: a join that is accepted gives the participant the first color of
\* the palette that no other participant of the room holds, and the
\* participants of every room have pairwise distinct colors.
C33_FirstFreeColor ==
    [][\A c \in Conns, m \in JoinInputs, ok \in BOOLEAN :
          (Join(c, m, ok) /\ JoinRejection(rooms, m) = None) =>
              LET after == rooms'[JoinRoomId(m)]
              IN /\ MapGet(after.clients, c).color
                       = FirstColorNotIn(ColorsOfOthers(after, c))
                 /\ \A i, j \in DOMAIN after.clients :
                       after.clients[i].color = after.clients[j].color => i = j
      ]_vars

\* C34: every step leaves every room with a passwordHash exactly when its
\* roomType is private, and leaves every room that exists with the roomType
\* and passwordHash it has: so does a join of an existing room, whatever
\* roomType and password it asks for.
C34_RoomTypeAndHashFixed ==
    [][/\ \A r \in DOMAIN rooms' :
            Truthy(rooms'[r].passwordHash) <=> rooms'[r].roomType = "private"
       /\ \A r \in DOMAIN rooms :
            /\ r \in DOMAIN rooms'
            /\ rooms'[r].roomType = rooms[r].roomType
            /\ rooms'[r].passwordHash = rooms[r].passwordHash
      ]_vars

\* A private room with its passwordHash has two participants: the second
\* joined the room when it existed.
C34_Witness ==
    \E r \in DOMAIN rooms :
        /\ rooms[r].roomType = "private"
        /\ rooms[r].passwordHash = hashPassword("x")
        /\ Cardinality(Members(rooms[r])) = 2
        /\ \A c \in Members(rooms[r]) : currentRoom[c] = r

C36_DiskMirrorsRegistry ==
    /\ DOMAIN disk = DOMAIN rooms
    /\ \A r \in DOMAIN rooms :
          /\ disk[r].roomType = rooms[r].roomType
          /\ disk[r].passwordHash = rooms[r].passwordHash
          /\ disk[r].sessions = rooms[r].sessions
    /\ DOMAIN hydrateRooms(disk) = DOMAIN rooms
    /\ \A r \in DOMAIN rooms :
          hydrateRooms(disk)[r] =
              [rooms[r] EXCEPT !.clients = <<>>, !.pathsById = <<>>,
                               !.shapesById = <<>>, !.textsById = <<>>,
                               !.imagesById = <<>>, !.committedIds = <<>>,
                               !.redoStack = <<>>]

\* The disk holds a room with a session that has elements, and the room has
\* a participant and live elements.
C36_Witness ==
    \E r \in DOMAIN disk :
        /\ disk[r].sessions # <<>>
        /\ disk[r].sessions[1].elements # <<>>
        /\ rooms[r].clients # <<>>
        /\ LiveCount(rooms[r]) > 0

\* The position of the first occurrence of id in ids.
FirstPosition(ids, id) ==
    CHOOSE i \in DOMAIN ids : ids[i] = id /\ \A j \in DOMAIN ids : ids[j] = id => i <= j

\* The snapshot lists the paths of the room once each: first the committed
\* ones in the order of committedIds, then those whose id is not in
\* committedIds.
PathsAsClaimed(room, paths) ==
    LET committed == {i \in DOMAIN paths : Includes(room.committedIds, paths[i].id)}
    IN /\ Len(paths) = Len(room.pathsById)
       /\ SeqToSet(paths) = SeqToSet(room.pathsById)
       /\ \A i \in committed, j \in DOMAIN paths \ committed : i < j
       /\ \A i, j \in committed :
             i < j => FirstPosition(room.committedIds, paths[i].id)
                        < FirstPosition(room.committedIds, paths[j].id)

\* C37: the state snapshot of every room lists the committed paths in
\* commit order and then the paths whose id is not in committedIds, has
\* redoCount the length of redoStack, has in users and in cursors the
\* participants of the room and no one else, and lists every session of
\* the room, the newest first.
C37_SnapshotAsClaimed ==
    \A r \in DOMAIN rooms :
        LET room == rooms[r]
            payload == buildStatePayload(room)
        IN /\ PathsAsClaimed(room, payload.paths)
           /\ payload.redoCount = Len(room.redoStack)
           /\ payload.users = [i \in DOMAIN room.clients |->
                                 [id |-> room.clients[i].id,
                                  name |-> room.clients[i].name,
                                  color |-> room.clients[i].color]]
           /\ {payload.cursors[i].id : i \in DOMAIN payload.cursors} = Members(room)
           /\ Len(payload.cursors) = Len(room.clients)
           /\ \A i \in DOMAIN payload.cursors :
                 payload.cursors[i].position
                     = MapGet(room.clients, payload.cursors[i].id).position
           /\ Len(payload.sessions) = Len(room.sessions)
           /\ {payload.sessions[i].id : i \in DOMAIN payload.sessions} = SessionIds(room)
           /\ \A i \in DOMAIN payload.sessions :
                 LET session == MapGet(room.sessions, payload.sessions[i].id)
                 IN /\ payload.sessions[i].name = session.name
                    /\ payload.sessions[i].createdAt = session.createdAt
           /\ \A i, j \in DOMAIN payload.sessions :
                 i < j => payload.sessions[i].createdAt >= payload.sessions[j].createdAt

\* The element is missing or has no id.
Rejected(element) == element = None \/ ~Truthy(element[1].id)

\* The step sent every participant of the room of c, c among them, the
\* delta of the kind with the element as the collection now stores it,
\* before anything else.
DeltaToAll(c, kind, field, coll, element) ==
    LET after == rooms'[currentRoom[c]]
    IN /\ c \in Members(after)
       /\ \A d \in Members(after) :
             conn[d] = "open" =>
                /\ Len(out'[d]) > Len(out[d])
                /\ SubSeq(out'[d], 1, Len(out[d])) = out[d]
                /\ Added(d)[1].type = kind
                /\ Added(d)[1][field] = MapGet(after[coll], element[1].id)

OnlyCounted == rooms' = rooms /\ out' = out

\* C38: a path:upsert, shape:upsert, text:add or image:add whose element is
\* missing or has no id changes no room and sends nothing; any other one
\* sends the stored element as a delta to every participant of the room,
\* the sender included.
C38_RejectedSilentAcceptedToAll ==
    [][\A c \in Conns :
          /\ \A path \in PathInputs :
                PathUpsert(c, path) =>
                    IF Rejected(path) THEN OnlyCounted
                    ELSE DeltaToAll(c, "path:upsert", "path", "pathsById", path)
          /\ \A shape \in ShapeInputs :
                ShapeUpsert(c, shape) =>
                    IF Rejected(shape) THEN OnlyCounted
                    ELSE DeltaToAll(c, "shape:upsert", "shape", "shapesById", shape)
          /\ \A text \in TextInputs :
                TextAdd(c, text) =>
                    IF Rejected(text) THEN OnlyCounted
                    ELSE DeltaToAll(c, "text:add", "text", "textsById", text)
          /\ \A image \in ImageInputs :
                ImageAdd(c, image) =>
                    IF Rejected(image) THEN OnlyCounted
                    ELSE DeltaToAll(c, "image:add", "image", "imagesById", image)
      ]_vars

\* Both participants of a room have the delta of an image in flight, the
\* image the room stores.
C38_Witness ==
    \E c, d \in Conns :
        /\ c # d
        /\ InRoom(c) /\ InRoom(d) /\ currentRoom[c] = currentRoom[d]
        /\ out[c] # <<>> /\ out[d] = out[c]
        /\ out[c][1].type = "image:add"
        /\ Includes(Room(c).imagesById, out[c][1].image)

\* The creation times of the sessions of a room, in the order of saving.
CreationTimes(room) == [i \in DOMAIN room.sessions |-> room.sessions[i].createdAt]

NoError(messages) == \A i \in DOMAIN messages : messages[i].type # "error"

\* C39: two runs handle the same commands with the same creation times,
\* and each snapshot write of each run succeeds or fails. After every
\* command the rooms of the two runs are the same and the command sent the
\* same messages in both, whichever writes failed; and a join, and a
\* save-session of a participant, sent no error.
C39_FailedWriteChangesNothingElse ==
    [][(/\ Serve(1)
        /\ currentRoom'[0] # Null /\ currentRoom'[1] # Null
        /\ CreationTimes(rooms'[currentRoom'[0]]) = CreationTimes(rooms'[currentRoom'[1]]))
       => /\ RunMessages(out'[1]) = RunMessages(out'[0])
          /\ RunRoom(rooms'[currentRoom'[0]]) = RunRoom(rooms'[currentRoom'[1]])
          /\ Head(inbox[1]).type \in {"join", "save-session"} =>
                NoError(out'[0]) /\ NoError(out'[1])
      ]_vars

\* Both runs have saved a session and the participants have the answers in
\* flight; the write of the first run succeeded and that of the second
\* failed: the disk has the session of the first room only.
C39_Witness ==
    /\ currentRoom[0] # Null /\ currentRoom[1] # Null
    /\ currentRoom[0] \in DOMAIN disk
    /\ disk[currentRoom[0]].sessions = rooms[currentRoom[0]].sessions
    /\ Len(rooms[currentRoom[1]].sessions) = Len(rooms[currentRoom[0]].sessions)
    /\ rooms[currentRoom[0]].sessions # <<>>
    /\ \/ currentRoom[1] \notin DOMAIN disk
       \/ Len(disk[currentRoom[1]].sessions) < Len(rooms[currentRoom[1]].sessions)
    /\ out[0] # <<>> /\ out[0][1].type = "session-saved"
    /\ RunMessages(out[1]) = RunMessages(out[0])

====
